---- MODULE Spec2Model ----
(***************************************************************************)
(* Model of the code-to-video backend: the composition config extractor    *)
(* and export style detector (lib/config-extractor.js), the temporary      *)
(* project synthesizer (lib/temp-project.js), the POST /render handler and *)
(* the periodic sweep cleanupOldFiles (api-server.js).                     *)
(*                                                                         *)
(* Text is a sequence of one-character strings.  A JavaScript number is    *)
(* held in tenths (24 is 240, 2.5 is 25), so that the fractional values    *)
(* parseFloat can return are integers here.                                *)
(***************************************************************************)
EXTENDS Integers, Sequences, FiniteSets, TLC

\* ------------------------------------------------------------------ bounds

\* Number of render requests the model follows.
NJobs == 2
\* Number of key/value entries a compositionConfig literal holds at most.
MaxEntries == 2
\* Number of export statements a source text holds at most.
MaxExports == 2
\* Number of 30-minute periods the clock advances at most.
MaxTicks == 1
\* Number of files of earlier runs a storage area holds at most.
NFiles == 2
\* Number of output file names requests choose from.
NNames == 1
\* Number of 30-minute periods a job in flight lasts at most.
MaxAge == 3

\* --------------------------------------------------------- JavaScript values

Scale == 5 * 2

JUndefined == [t |-> "undefined"]
JNull == [t |-> "null"]
JNaN == [t |-> "NaN"]
JNum(n) == [t |-> "number", n |-> n]
JStr(s) == [t |-> "string", s |-> s]
JObj(o) == [t |-> "object", o |-> o]

\* A whole number n as a JavaScript number.
Whole(n) == JNum(n * Scale)

\* ToBoolean, as the || operator applies it.
Truthy(v) ==
    CASE v.t = "undefined" -> FALSE
      [] v.t = "null" -> FALSE
      [] v.t = "NaN" -> FALSE
      [] v.t = "number" -> v.n # 0
      [] v.t = "string" -> Len(v.s) > 0
      [] OTHER -> TRUE

\* a ?? b: used only to state what a wrong backfill would do.
OrNullish(a, b) == IF a.t \in {"undefined", "null"} THEN b ELSE a

\* a || b
Or(a, b) == IF Truthy(a) THEN a ELSE b

Digits == {"0", "1", "2", "3", "4", "5", "6", "7", "8", "9"}
Upper == {"A", "B", "C"}
Lower == {"a", "b", "c", "d", "f", "g", "i", "m", "n", "o", "p", "s", "t", "u"}

DigitVal(c) ==
    CASE c = "0" -> 0 [] c = "1" -> 1 [] c = "2" -> 2 [] c = "3" -> 3
      [] c = "4" -> 4 [] c = "5" -> 5 [] c = "6" -> 6 [] c = "7" -> 7
      [] c = "8" -> 8 [] c = "9" -> 9

\* Length of the longest prefix of s whose characters are all in set.
RECURSIVE PrefixLen(_, _)
PrefixLen(s, set) ==
    IF s = <<>> \/ Head(s) \notin set THEN 0 ELSE 1 + PrefixLen(Tail(s), set)

\* Value of a run of decimal digits.
RECURSIVE DigitsVal(_)
DigitsVal(s) ==
    IF s = <<>> THEN 0 ELSE DigitsVal(SubSeq(s, 1, Len(s) - 1)) * 10 + DigitVal(s[Len(s)])

\* parseInt(s) of a string: optional sign, then the leading run of digits.
ParseIntText(s) ==
    LET neg == s # <<>> /\ Head(s) = "-"
        body == IF neg THEN Tail(s) ELSE s
        k == PrefixLen(body, Digits)
    IN  IF k = 0 THEN JNaN
        ELSE JNum((IF neg THEN -1 ELSE 1) * DigitsVal(SubSeq(body, 1, k)) * Scale)

\* parseFloat(s) of a string: optional sign, leading digits, optional
\* fraction (the texts of the model carry at most one fraction digit).
ParseFloatText(s) ==
    LET neg == s # <<>> /\ Head(s) = "-"
        body == IF neg THEN Tail(s) ELSE s
        k == PrefixLen(body, Digits)
        rest == SubSeq(body, k + 1, Len(body))
        frac == IF Len(rest) >= 2 /\ rest[1] = "." /\ rest[2] \in Digits
                THEN DigitVal(rest[2]) ELSE 0
    IN  IF k = 0 THEN JNaN
        ELSE JNum((IF neg THEN -1 ELSE 1) * (DigitsVal(SubSeq(body, 1, k)) * Scale + frac))

\* parseInt / parseFloat of what extractValue returned: null reads as "null".
ParseInt(v) == IF v.t = "string" THEN ParseIntText(v.s) ELSE JNaN
ParseFloat(v) == IF v.t = "string" THEN ParseFloatText(v.s) ELSE JNaN

\* ------------------------------------------------------------- source text
\* A source text is held as what the patterns of config-extractor.js see in
\* it: the compositionConfig literal the export pattern captures (or no
\* match), and the export statements in source order.

DEFAULT_fps == 30
DEFAULT_width == 1080
DEFAULT_height == 1920
DEFAULT_durationInSeconds == 5

Keys == {"id", "durationInSeconds", "fps", "width", "height", "defaultProps"}

\* The value texts a literal's entries carry: 'd', '24', '', a number text,
\* a negated number, a nested object.
Tokens ==
    {[k |-> "str", s |-> <<"d">>], [k |-> "str", s |-> <<"2", "4">>],
     [k |-> "str", s |-> <<>>],
     [k |-> "num", s |-> <<"0">>], [k |-> "num", s |-> <<"2", "4">>],
     [k |-> "num", s |-> <<"2", ".", "5">>],
     [k |-> "neg", s |-> <<"5">>],
     [k |-> "obj", s |-> <<>>]}

\* key: value, written inside a comment or not.
Entries ==
    [key : Keys, tok : Tokens, cmt : {FALSE}]
        \cup [key : {"fps"}, tok : {[k |-> "num", s |-> <<"6", "0">>]}, cmt : {TRUE}]

BoundedSeq(S, n) == UNION {[1..k -> S] : k \in 0..n}

\* bad: the literal holds something eval cannot evaluate (an undeclared
\* identifier, a type assertion, an unbalanced brace).
Literals == [found : {TRUE}, entries : BoundedSeq(Entries, MaxEntries), bad : BOOLEAN]

\* The export pattern matches nowhere in the text.
NoMatch == [found |-> FALSE, entries |-> <<>>, bad |-> FALSE]

ConfigName ==
    <<"c", "o", "m", "p", "o", "s", "i", "t", "i", "o", "n",
      "C", "o", "n", "f", "i", "g">>

ExportNames == {<<"A", "b">>, <<"B">>, <<"a", "b">>, <<"A", "_", "b">>, ConfigName}

ExportItems ==
    {[kw |-> "default", name |-> <<>>]}
        \cup [kw : {"const", "function"}, name : ExportNames \ {ConfigName}]
        \cup {[kw |-> "const", name |-> ConfigName]}

\* --------------------------------------------- lib/config-extractor.js

Throws == [t |-> "throw"]

\* content.match(/export\s+const\s+compositionConfig\s*=\s*(\{[\s\S]*?\});/)
configMatch(content) == content.cfg

\* The three replace() calls: comments (and the entries written in them) go.
CleanEntries(lit) == SelectSeq(lit.entries, LAMBDA e : ~e.cmt)

\* The value a token evaluates to.
TokValue(tok) ==
    CASE tok.k = "str" -> JStr(tok.s)
      [] tok.k = "num" -> ParseFloatText(tok.s)
      [] tok.k = "neg" -> JNum(0 - ParseFloatText(tok.s).n)
      [] tok.k = "obj" -> JObj("props")

\* eval(`(${configStr})`): throws, or the object; a key written twice keeps
\* its last value, a key not written reads undefined.
EvalConfig(lit) ==
    IF lit.bad THEN Throws
    ELSE LET es == CleanEntries(lit)
             at(key) == {i \in DOMAIN es : es[i].key = key}
             last(key) == CHOOSE i \in at(key) : \A j \in at(key) : j <= i
         IN  [key \in Keys |->
                 IF at(key) = {} THEN JUndefined ELSE TokValue(es[last(key)].tok)]

\* The run /\d+\.?\d*/ matches at the start of a number text.
NumCapture(s) ==
    LET k == PrefixLen(s, Digits)
        dot == k < Len(s) /\ s[k + 1] = "."
        k2 == IF dot THEN PrefixLen(SubSeq(s, k + 2, Len(s)), Digits) ELSE 0
    IN  SubSeq(s, 1, k + (IF dot THEN 1 + k2 ELSE 0))

\* extractValue(configStr, key): the first quoted non-empty value of the key
\* anywhere in the raw literal, else its first numeric value, else null.
extractValue(lit, key) ==
    LET es == lit.entries
        strHits == {i \in DOMAIN es :
                       es[i].key = key /\ es[i].tok.k = "str" /\ Len(es[i].tok.s) > 0}
        numHits == {i \in DOMAIN es : es[i].key = key /\ es[i].tok.k = "num"}
        first(H) == CHOOSE i \in H : \A j \in H : i <= j
    IN  IF strHits # {} THEN JStr(es[first(strHits)].tok.s)
        ELSE IF numHits # {} THEN JStr(NumCapture(es[first(numHits)].tok.s))
        ELSE JNull

\* The return of the try block: each field || its default.
StructuralNullish(config, filename) ==
    [t |-> "config",
     id |-> OrNullish(config["id"], JStr(filename)),
     durationInSeconds |->
         OrNullish(config["durationInSeconds"], Whole(DEFAULT_durationInSeconds)),
     fps |-> OrNullish(config["fps"], Whole(DEFAULT_fps)),
     width |-> OrNullish(config["width"], Whole(DEFAULT_width)),
     height |-> OrNullish(config["height"], Whole(DEFAULT_height)),
     defaultProps |-> OrNullish(config["defaultProps"], JObj("empty"))]

Structural(config, filename) ==
    [t |-> "config",
     id |-> Or(config["id"], JStr(filename)),
     durationInSeconds |->
         Or(config["durationInSeconds"], Whole(DEFAULT_durationInSeconds)),
     fps |-> Or(config["fps"], Whole(DEFAULT_fps)),
     width |-> Or(config["width"], Whole(DEFAULT_width)),
     height |-> Or(config["height"], Whole(DEFAULT_height)),
     defaultProps |-> Or(config["defaultProps"], JObj("empty"))]

\* The return of the catch block: the per-field regex result.
Fallback(lit, filename) ==
    [t |-> "config",
     id |-> Or(extractValue(lit, "id"), JStr(filename)),
     durationInSeconds |->
         Or(ParseFloat(extractValue(lit, "durationInSeconds")),
            Whole(DEFAULT_durationInSeconds)),
     fps |-> Or(ParseInt(extractValue(lit, "fps")), Whole(DEFAULT_fps)),
     width |-> Or(ParseInt(extractValue(lit, "width")), Whole(DEFAULT_width)),
     height |-> Or(ParseInt(extractValue(lit, "height")), Whole(DEFAULT_height)),
     defaultProps |-> JObj("empty")]

NoConfigError(filename) == [t |-> "error", file |-> filename]

\* extractCompositionConfig with the catch block rethrowing.
extractRethrow(content, filename) ==
    LET m == configMatch(content)
    IN  IF ~m.found THEN NoConfigError(filename)
        ELSE IF EvalConfig(m) = Throws THEN [t |-> "error", file |-> <<>>]
        ELSE Structural(EvalConfig(m), filename)

\* extractCompositionConfig(filePath): the config, or the error it throws.
extractCompositionConfig(content, filename) ==
    LET m == configMatch(content)
    IN  IF ~m.found THEN NoConfigError(filename)
        ELSE IF EvalConfig(m) = Throws THEN Fallback(m, filename)
        ELSE Structural(EvalConfig(m), filename)

\* What /([A-Z][a-zA-Z0-9]*)/ captures of an identifier: nothing unless it
\* starts with a capital, else its leading run of letters and digits.
NameCapture(name) ==
    IF name = <<>> \/ Head(name) \notin Upper THEN <<>>
    ELSE SubSeq(name, 1, PrefixLen(name, Upper \cup Lower \cup Digits))

\* detectExportStyle(filePath)
detectExportStyle(content, filename) ==
    LET xs == content.exports
        hits == {i \in DOMAIN xs :
                    /\ xs[i].kw \in {"const", "function"}
                    /\ NameCapture(xs[i].name) # <<>>
                    /\ NameCapture(xs[i].name) # ConfigName}
        first == CHOOSE i \in hits : \A j \in hits : i <= j
    IN  IF \E i \in DOMAIN xs : xs[i].kw = "default"
        THEN [type |-> "default", name |-> <<>>]
        ELSE IF hits # {} THEN [type |-> "named", name |-> NameCapture(xs[first].name)]
        ELSE [type |-> "named", name |-> filename]

\* ------------------------------------------------------------ file system

MAX_TSX_SIZE == 1024 * 1024
ONE_HOUR == 60 * 60 * 1000
\* The period of setInterval(cleanupOldFiles, ...), the unit the clock moves by.
Period == 30 * 60 * 1000

Jobs == 1..NJobs
Areas == <<"temp", "outputs">>

\* A file of a storage area: temp/<jobId>.tsx and outputs/<jobId>.mp4
\* (kind "job"), or a file under a name not derived from a job id of this
\* run: a requested output file name, a file of an earlier run (kind "user").
AllPaths ==
    [area : {"temp", "outputs"}, kind : {"job"}, n : Jobs]
        \cup [area : {"temp", "outputs"}, kind : {"user"}, n : 1..NFiles]

NoFile == 0 - 1
NoDir == 0 - 1

\* path.join(TEMP_DIR, `${jobId}.tsx`)
tsxFilePath(j) == [area |-> "temp", kind |-> "job", n |-> j]

\* path.join(OUTPUT_DIR, filename || `${jobId}.mp4`); filename 0 is undefined.
outputPath(j, filename) ==
    IF filename = 0 THEN [area |-> "outputs", kind |-> "job", n |-> j]
    ELSE [area |-> "outputs", kind |-> "user", n |-> filename]

existsSync(f, p) == f[p] # NoFile

\* A successful fs.unlink that leaves the file in place.
unlinkNothing(f, p) == f

\* The effect of a successful fs.unlink(p).
unlink(f, p) == [f EXCEPT ![p] = NoFile]

\* The effect of a successful write of p at time now.
writeFile(f, p, now) == [f EXCEPT ![p] = now]

\* The sweep's test with >= in place of >.
IsStaleOrEqual(now, mtimeMs) == now - mtimeMs >= ONE_HOUR

\* now - stats.mtimeMs > ONE_HOUR
IsStale(now, mtimeMs) == now - mtimeMs > ONE_HOUR

\* The base name of job j's temp source file, the job id.
JobName(j) == <<"u", CHOOSE c \in Digits : DigitVal(c) = j>>

\* ------------------------------------------------------------------ state

VARIABLES
    clock,      \* Date.now()
    fs,         \* the temp and outputs areas: path -> mtimeMs, or NoFile
    dirs,       \* the remotion-render-<ms> directories under os.tmpdir()
    job,        \* per request: the handler's locals and what it did so far
    sweep,      \* the run of cleanupOldFiles in progress
    content,    \* a source text handed to the extractor on its own
    result,     \* what extractCompositionConfig returned or threw for it
    style,      \* what detectExportStyle returned for it
    rootTsx,    \* the Root.tsx createTempProject writes for its config
    composition \* the composition the handler hands to renderMedia for it

vars == <<clock, fs, dirs, job, sweep, content, result, style, rootTsx, composition>>

ConfigItem == [kw |-> "const", name |-> ConfigName]
DefaultItem == [kw |-> "default", name |-> <<>>]

FpsEntry == [key |-> "fps", tok |-> [k |-> "num", s |-> <<"2", "4">>], cmt |-> FALSE]

\* The source texts the requests of the model carry.
SrcNoConfig == [cfg |-> NoMatch, exports |-> <<DefaultItem>>]
SrcGood ==
    [cfg |-> [found |-> TRUE, entries |-> <<FpsEntry>>, bad |-> FALSE],
     exports |-> <<ConfigItem, DefaultItem>>]
SrcBad ==
    [cfg |-> [found |-> TRUE, entries |-> <<FpsEntry>>, bad |-> TRUE],
     exports |-> <<ConfigItem, DefaultItem>>]
JobSources == {SrcNoConfig, SrcBad}

\* request.body.tsx: its type, its length when a string, its text.
TsxValues ==
    {[typ |-> "undefined", len |-> 0, text |-> SrcNoConfig],
     [typ |-> "number", len |-> 0, text |-> SrcNoConfig],
     [typ |-> "string", len |-> 0, text |-> SrcNoConfig],
     [typ |-> "string", len |-> MAX_TSX_SIZE + 1, text |-> SrcNoConfig]}
        \cup [typ : {"string"}, len : {MAX_TSX_SIZE}, text : JobSources]

\* request.body.filename: undefined (0) or a name.
FileNames == 0..NNames

NoResp == [code |-> 0, kind |-> "none", jobId |-> 0]
NoConfig == [t |-> "none"]

IdleJob ==
    [pc |-> "idle", tsx |-> [typ |-> "undefined", len |-> 0, text |-> SrcNoConfig],
     filename |-> 0, jobId |-> 0, tempProjectDir |-> NoDir, made |-> NoDir,
     config |-> NoConfig, resp |-> NoResp, sent |-> 0, stage |-> "none",
     calls |-> {}, delFailed |-> FALSE,
     trace |-> <<>>, succeeded |-> {}, written |-> {},
     dirAtSend |-> FALSE, finallyRan |-> FALSE]

IdleSweep ==
    [pc |-> "idle", now |-> 0, dir |-> 1, todo |-> {}, cur |-> tsxFilePath(1),
     start |-> [p \in AllPaths |-> NoFile], errs |-> {}, dirErrs |-> {},
     removed |-> {}]

\* The areas as a restart finds them: output files of earlier runs may be
\* there under the names requests ask for.
InitFs ==
    {f \in [AllPaths -> {NoFile, 0}] :
        \A p \in AllPaths :
            f[p] # NoFile => p.area = "outputs" /\ p.kind = "user" /\ p.n <= NNames}

Init ==
    /\ clock = 0
    /\ fs \in InitFs
    /\ dirs = {}
    /\ job = [j \in Jobs |-> IdleJob]
    /\ sweep = IdleSweep
    /\ content = SrcGood
    /\ result = NoConfig
    /\ style = NoConfig
    /\ rootTsx = NoConfig
    /\ composition = NoConfig

\* ------------------------------------------------- lib/temp-project.js

\* String(n) of a non-negative whole number.
DigitChar(d) == CHOOSE c \in Digits : DigitVal(c) = d
RECURSIVE NatText(_)
NatText(n) ==
    IF n < 10 THEN <<DigitChar(n)>> ELSE Append(NatText(n \div 10), DigitChar(n % 10))

\* String(n) of a number: sign, whole part, and the tenth if there is one.
NumText(n) ==
    LET a == IF n < 0 THEN 0 - n ELSE n
    IN  (IF n < 0 THEN <<"-">> ELSE <<>>)
            \o NatText(a \div Scale)
            \o (IF a % Scale = 0 THEN <<>> ELSE <<".", DigitChar(a % Scale)>>)

NaNText == <<"N", "a", "N">>
ObjectText ==
    <<"[", "o", "b", "j", "e", "c", "t", " ", "O", "b", "j", "e", "c", "t", "]">>

\* `${v}` in a template literal.
TemplateText(v) ==
    CASE v.t = "number" -> NumText(v.n)
      [] v.t = "NaN" -> NaNText
      [] v.t = "string" -> v.s
      [] v.t = "undefined" -> <<"u", "n", "d", "e", "f", "i", "n", "e", "d">>
      [] v.t = "null" -> <<"n", "u", "l", "l">>
      [] OTHER -> ObjectText

\* The text is a decimal number from its first character to its last.
IsNumberText(s) ==
    LET body == IF s # <<>> /\ Head(s) = "-" THEN Tail(s) ELSE s
    IN  body # <<>> /\ Head(body) \in Digits /\ NumCapture(body) = body

\* ToNumber, as the * operator applies it to its operands.
ToNumber(v) ==
    CASE v.t = "number" -> v
      [] v.t = "null" -> JNum(0)
      [] v.t = "string" ->
            IF v.s = <<>> THEN JNum(0)
            ELSE IF IsNumberText(v.s) THEN ParseFloatText(v.s) ELSE JNaN
      [] OTHER -> JNaN

\* Math.round(a * b): the product of two numbers held in tenths is in
\* hundredths; a half rounds towards plus infinity.
MathRoundProduct(a, b) ==
    LET x == ToNumber(a)
        y == ToNumber(b)
    IN  IF x.t # "number" \/ y.t # "number" THEN JNaN
        ELSE Whole((x.n * y.n + (Scale * Scale) \div 2) \div (Scale * Scale))

\* JSON.stringify(v) of the values defaultProps takes.
JsonStringify(v) ==
    CASE v.t = "number" -> NumText(v.n)
      [] v.t = "string" -> <<"\"">> \o v.s \o <<"\"">>
      [] v.t = "object" -> IF v.o = "empty" THEN <<"{", "}">> ELSE <<"{", "p", "}">>
      [] OTHER -> <<"n", "u", "l", "l">>

\* Lines 25-70 of createTempProject: the import statement chosen by the
\* export style, and the attributes of <Composition> as Root.tsx spells them.
RootTsx(config, exportStyle) ==
    [t |-> "root",
     importStatement |-> exportStyle,
     id |-> TemplateText(config.id),
     durationInFrames |->
         TemplateText(MathRoundProduct(config.durationInSeconds, config.fps)),
     fps |-> TemplateText(config.fps),
     width |-> TemplateText(config.width),
     height |-> TemplateText(config.height),
     defaultProps |-> JsonStringify(Or(config.defaultProps, JObj("empty")))]

\* cleanupTempProject(tempDir): rmSync may throw, and the throw is swallowed.
cleanupTempProject(ds, tempDir, rmOk) ==
    IF tempDir # NoDir /\ tempDir \in ds /\ rmOk THEN ds \ {tempDir} ELSE ds

\* ------------------------------------------------- POST /render handler

\* The two validation tests with the size test left out.
ValidTsxNoLimit(tsx) == tsx.typ = "string" /\ tsx.len > 0

\* !( !tsx || typeof tsx !== "string" ) and !(tsx.length > MAX_TSX_SIZE)
ValidTsx(tsx) == tsx.typ = "string" /\ tsx.len > 0 /\ tsx.len <= MAX_TSX_SIZE

InvalidReplyCode == 400
FailureReplyCode == 500
\* The reply to a config error taken over by the outer catch block.
ConfigErrorAsFailure == FailureReplyCode
ConfigErrorReplyCode == 400

ErrorReply(code, id) == [code |-> code, kind |-> "error", jobId |-> id]
VideoReply == [code |-> 200, kind |-> "video", jobId |-> 0]

\* The handler stays pending at the point where it would send its reply.
FinishPending(j, r, ds, reply, rmOk) ==
    /\ job' = [job EXCEPT ![j] = [r EXCEPT !.pc = "pending"]]
    /\ dirs' = ds

\* reply.send(...) followed by the finally block: the handler is over.
\* dirAtSend keeps whether the directory createTempProject made was still
\* there when send was called.
Finish(j, r, ds, reply, rmOk) ==
    /\ job' = [job EXCEPT ![j] =
                  [r EXCEPT !.pc = "done", !.resp = reply, !.sent = r.sent + 1,
                            !.dirAtSend = (r.made # NoDir /\ r.made \in ds),
                            !.finallyRan = TRUE]]
    /\ dirs' = cleanupTempProject(ds, r.tempProjectDir, rmOk)

\* A stage threw: the catch block starts.  It awaits an unlink only for a
\* file existsSync finds, and replies 500 once nothing is left to unlink.
Catch(j, r, f, ds, stage, rmOk) ==
    LET r2 == [r EXCEPT !.stage = stage]
    IN  IF existsSync(f, tsxFilePath(j))
        THEN /\ job' = [job EXCEPT ![j] = [r2 EXCEPT !.pc = "catchUnlinkTsx"]]
             /\ dirs' = ds
        ELSE IF existsSync(f, outputPath(j, r.filename))
        THEN /\ job' = [job EXCEPT ![j] = [r2 EXCEPT !.pc = "catchUnlinkOut"]]
             /\ dirs' = ds
        ELSE Finish(j, r2, ds, ErrorReply(FailureReplyCode, j), rmOk)

\* Lines 81-108: validation, then the job's paths and the write of the source.
Receive(j) ==
    /\ job[j].pc = "idle"
    /\ \E tsx \in TsxValues, filename \in FileNames :
          IF ~ValidTsx(tsx)
          THEN job' = [job EXCEPT ![j] =
                          [@ EXCEPT !.pc = "done", !.tsx = tsx,
                                    !.resp = ErrorReply(InvalidReplyCode, 0),
                                    !.sent = @ + 1, !.stage = "validate",
                                    !.trace = <<"validate">>]]
          ELSE job' = [job EXCEPT ![j] =
                          [@ EXCEPT !.pc = "writeFile", !.tsx = tsx,
                                    !.filename = filename, !.jobId = j,
                                    !.trace = <<"validate", "writeFile">>,
                                    !.succeeded = {"validate"}]]
    /\ UNCHANGED <<clock, fs, dirs, sweep, content, result, style, rootTsx, composition>>

\* Lines 108-126: the write ends; extractCompositionConfig; ensureBrowser starts.
WriteDone(j) ==
    /\ job[j].pc = "writeFile"
    /\ \E ok \in BOOLEAN, rmOk \in BOOLEAN :
          IF ~ok
          THEN /\ fs' = fs
               /\ Catch(j, job[j], fs, dirs, "writeFile", rmOk)
          ELSE LET f2 == writeFile(fs, tsxFilePath(j), clock)
                   c == extractCompositionConfig(job[j].tsx.text, JobName(j))
                   r == [job[j] EXCEPT !.calls = @ \cup {"extractCompositionConfig"},
                                       !.trace = Append(@, "extractCompositionConfig"),
                                       !.succeeded = @ \cup {"writeFile"},
                                       !.written = @ \cup {tsxFilePath(j)}]
               IN  /\ fs' = f2
                   /\ IF c.t = "error"
                      THEN Finish(j, [r EXCEPT !.stage = "extractCompositionConfig"], dirs,
                                  ErrorReply(ConfigErrorReplyCode, 0), rmOk)
                      ELSE /\ job' = [job EXCEPT ![j] =
                                         [r EXCEPT !.pc = "ensureBrowser", !.config = c,
                                                   !.calls = @ \cup {"ensureBrowser"},
                                                   !.trace = Append(@, "ensureBrowser"),
                                                   !.succeeded =
                                                       @ \cup {"extractCompositionConfig"}]]
                           /\ dirs' = dirs
    /\ UNCHANGED <<clock, sweep, content, result, style, rootTsx, composition>>

\* createTempProject up to its return or throw: the directory it makes is
\* named by Date.now(); a throw after mkdirSync leaves the directory behind.
SynthOutcomes == {"ok", "mkdirThrows", "writeThrows"}
createTempProject(ds, now, outcome) ==
    IF outcome = "mkdirThrows" THEN ds ELSE ds \cup {now}

\* Lines 126-137: ensureBrowser ends; createTempProject; bundle starts.
EnsureBrowserDone(j) ==
    /\ job[j].pc = "ensureBrowser"
    /\ \E ok \in BOOLEAN, rmOk \in BOOLEAN, outcome \in SynthOutcomes :
          IF ~ok
          THEN Catch(j, job[j], fs, dirs, "ensureBrowser", rmOk)
          ELSE LET ds == createTempProject(dirs, clock, outcome)
                   r == [job[j] EXCEPT !.calls = @ \cup {"createTempProject"},
                                       !.trace = Append(@, "createTempProject"),
                                       !.succeeded = @ \cup {"ensureBrowser"},
                                       !.made = IF outcome = "mkdirThrows" THEN NoDir
                                                ELSE clock]
               IN  IF outcome = "ok"
                   THEN /\ job' = [job EXCEPT ![j] =
                                      [r EXCEPT !.pc = "bundle", !.tempProjectDir = clock,
                                                !.calls = @ \cup {"bundle"},
                                                !.trace = Append(@, "bundle"),
                                                !.succeeded = @ \cup {"createTempProject"}]]
                        /\ dirs' = ds
                   ELSE Catch(j, r, fs, ds, "createTempProject", rmOk)
    /\ UNCHANGED <<clock, fs, sweep, content, result, style, rootTsx, composition>>

\* Lines 137-156: bundle ends (it reads the project directory);
\* selectComposition starts.
BundleDone(j) ==
    /\ job[j].pc = "bundle"
    /\ \E ok \in BOOLEAN, rmOk \in BOOLEAN :
          IF ok /\ job[j].tempProjectDir \in dirs
          THEN /\ job' = [job EXCEPT ![j] =
                             [@ EXCEPT !.pc = "selectComposition",
                                       !.calls = @ \cup {"selectComposition"},
                                       !.trace = Append(@, "selectComposition"),
                                       !.succeeded = @ \cup {"bundle"}]]
               /\ dirs' = dirs
          ELSE Catch(j, job[j], fs, dirs, "bundle", rmOk)
    /\ UNCHANGED <<clock, fs, sweep, content, result, style, rootTsx, composition>>

\* selectComposition ends and the handler goes on to deliver the output
\* file without calling renderMedia.
SelectDoneSkipsRender(j) ==
    /\ job[j].pc = "selectComposition"
    /\ \E ok \in BOOLEAN, rmOk \in BOOLEAN :
          IF ok
          THEN /\ job' = [job EXCEPT ![j] =
                             [@ EXCEPT !.pc = "unlinkTsx",
                                       !.trace = Append(@, "deliver"),
                                       !.succeeded = @ \cup {"selectComposition"}]]
               /\ dirs' = dirs
          ELSE Catch(j, job[j], fs, dirs, "selectComposition", rmOk)
    /\ UNCHANGED <<clock, fs, sweep, content, result, style, rootTsx, composition>>

\* Lines 156-168: selectComposition ends; renderMedia starts.
SelectDone(j) ==
    /\ job[j].pc = "selectComposition"
    /\ \E ok \in BOOLEAN, rmOk \in BOOLEAN :
          IF ok
          THEN /\ job' = [job EXCEPT ![j] =
                             [@ EXCEPT !.pc = "renderMedia",
                                       !.calls = @ \cup {"renderMedia"},
                                       !.trace = Append(@, "renderMedia"),
                                       !.succeeded = @ \cup {"selectComposition"}]]
               /\ dirs' = dirs
          ELSE Catch(j, job[j], fs, dirs, "selectComposition", rmOk)
    /\ UNCHANGED <<clock, fs, sweep, content, result, style, rootTsx, composition>>

\* Lines 168-184: renderMedia ends, having written the output file (a
\* failed render may have written part of it); the unlink of the source starts.
RenderDone(j) ==
    /\ job[j].pc = "renderMedia"
    /\ \E ok \in BOOLEAN, wrote \in BOOLEAN, rmOk \in BOOLEAN :
          LET f2 == IF ok \/ wrote
                    THEN writeFile(fs, outputPath(j, job[j].filename), clock) ELSE fs
              r == IF ok \/ wrote
                   THEN [job[j] EXCEPT !.written = @ \cup {outputPath(j, job[j].filename)}]
                   ELSE job[j]
          IN  /\ fs' = f2
              /\ IF ok
                 THEN /\ job' = [job EXCEPT ![j] =
                                    [r EXCEPT !.pc = "unlinkTsx",
                                              !.trace = Append(@, "deliver"),
                                              !.succeeded = @ \cup {"renderMedia"}]]
                      /\ dirs' = dirs
                 ELSE Catch(j, r, f2, dirs, "renderMedia", rmOk)
    /\ UNCHANGED <<clock, sweep, content, result, style, rootTsx, composition>>

\* Lines 184-187: the unlink of the source ends; the read of the output starts.
UnlinkTsxDone(j) ==
    /\ job[j].pc = "unlinkTsx"
    /\ \E ok \in BOOLEAN, rmOk \in BOOLEAN :
          IF ok /\ existsSync(fs, tsxFilePath(j))
          THEN /\ fs' = unlink(fs, tsxFilePath(j))
               /\ job' = [job EXCEPT ![j] = [@ EXCEPT !.pc = "readFile"]]
               /\ dirs' = dirs
          ELSE /\ fs' = fs
               /\ Catch(j, [job[j] EXCEPT !.delFailed = TRUE], fs, dirs, "unlinkTsx", rmOk)
    /\ UNCHANGED <<clock, sweep, content, result, style, rootTsx, composition>>

\* Lines 187-192 and the finally block: the read ends and the video is sent.
ReadDone(j) ==
    /\ job[j].pc = "readFile"
    /\ \E ok \in BOOLEAN, rmOk \in BOOLEAN :
          IF ok /\ existsSync(fs, outputPath(j, job[j].filename))
          THEN Finish(j, [job[j] EXCEPT !.succeeded = @ \cup {"deliver"}], dirs,
                      VideoReply, rmOk)
          ELSE Catch(j, job[j], fs, dirs, "readFile", rmOk)
    /\ UNCHANGED <<clock, fs, sweep, content, result, style, rootTsx, composition>>

\* Lines 198-199: the catch block's unlink of the source ends.  If it threw
\* the inner catch logs it and the unlink of the output is skipped.
CatchUnlinkTsxDone(j) ==
    /\ job[j].pc = "catchUnlinkTsx"
    /\ \E ok \in BOOLEAN, rmOk \in BOOLEAN :
          IF ok /\ existsSync(fs, tsxFilePath(j))
          THEN LET f2 == unlink(fs, tsxFilePath(j))
               IN  /\ fs' = f2
                   /\ IF existsSync(f2, outputPath(j, job[j].filename))
                      THEN /\ job' = [job EXCEPT ![j] = [@ EXCEPT !.pc = "catchUnlinkOut"]]
                           /\ dirs' = dirs
                      ELSE Finish(j, job[j], dirs, ErrorReply(FailureReplyCode, j), rmOk)
          ELSE /\ fs' = fs
               /\ Finish(j, [job[j] EXCEPT !.delFailed = TRUE], dirs,
                         ErrorReply(FailureReplyCode, j), rmOk)
    /\ UNCHANGED <<clock, sweep, content, result, style, rootTsx, composition>>

\* Lines 199-208: the catch block's unlink of the output ends; 500 is sent.
CatchUnlinkOutDone(j) ==
    /\ job[j].pc = "catchUnlinkOut"
    /\ \E ok \in BOOLEAN, rmOk \in BOOLEAN :
          IF ok /\ existsSync(fs, outputPath(j, job[j].filename))
          THEN /\ fs' = unlink(fs, outputPath(j, job[j].filename))
               /\ Finish(j, job[j], dirs, ErrorReply(FailureReplyCode, j), rmOk)
          ELSE /\ fs' = fs
               /\ Finish(j, [job[j] EXCEPT !.delFailed = TRUE], dirs,
                         ErrorReply(FailureReplyCode, j), rmOk)
    /\ UNCHANGED <<clock, sweep, content, result, style, rootTsx, composition>>

\* Time passes.
Tick ==
    /\ clock < MaxTicks * Period
    /\ clock' = clock + Period
    /\ UNCHANGED <<fs, dirs, job, sweep, content, result, style, rootTsx, composition>>

\* Time passes while a job is in flight: no stage has a timeout.
Elapse ==
    /\ clock < MaxAge * Period
    /\ clock' = clock + Period
    /\ UNCHANGED <<fs, dirs, job, sweep, content, result, style, rootTsx, composition>>

\* ------------------------------------------------------ cleanupOldFiles

\* The catch of the loop over the two directories, or the end of the inner
\* loop: on to the next directory, or the sweep is over.
NextDir(s) ==
    IF s.dir < Len(Areas)
    THEN [s EXCEPT !.pc = "readdir", !.dir = @ + 1, !.todo = {}]
    ELSE [s EXCEPT !.pc = "done", !.todo = {}]

\* After a file is dealt with: the next file, or the next directory.
NextFile(s, p) ==
    IF s.todo \ {p} = {} THEN NextDir(s)
    ELSE [s EXCEPT !.pc = "stat", !.todo = @ \ {p}]

\* Lines 49-54: now is read once; readdir of the first directory starts.
\* start keeps what the areas held at that moment.
SweepStart ==
    /\ sweep.pc \in {"idle", "done"}
    /\ sweep' = [IdleSweep EXCEPT !.pc = "readdir", !.now = clock, !.start = fs]
    /\ UNCHANGED <<clock, fs, dirs, job, content, result, style, rootTsx, composition>>

\* Line 54: readdir ends with the names in the directory, or throws.
SweepReaddirDone ==
    /\ sweep.pc = "readdir"
    /\ \E ok \in BOOLEAN :
          LET files == {p \in AllPaths : p.area = Areas[sweep.dir] /\ existsSync(fs, p)}
          IN  IF ~ok
              THEN sweep' = NextDir([sweep EXCEPT !.dirErrs = @ \cup {sweep.dir}])
              ELSE IF files = {} THEN sweep' = NextDir(sweep)
              ELSE sweep' = [sweep EXCEPT !.pc = "stat", !.todo = files]
    /\ UNCHANGED <<clock, fs, dirs, job, content, result, style, rootTsx, composition>>

\* Lines 56-59: stat of the next file ends; a stale file's unlink starts.
\* readdir gives no order, so any file left of the listing may be next.
SweepStatDone ==
    /\ sweep.pc = "stat"
    /\ \E p \in sweep.todo, ok \in BOOLEAN :
          IF ok /\ existsSync(fs, p)
          THEN IF IsStale(sweep.now, fs[p])
               THEN sweep' = [sweep EXCEPT !.pc = "unlink", !.cur = p]
               ELSE sweep' = NextFile(sweep, p)
          ELSE sweep' = NextDir([sweep EXCEPT !.errs = @ \cup {p}])
    /\ UNCHANGED <<clock, fs, dirs, job, content, result, style, rootTsx, composition>>

\* Line 59: the unlink of a stale file ends.
SweepUnlinkDone ==
    /\ sweep.pc = "unlink"
    /\ \E ok \in BOOLEAN :
          IF ok /\ existsSync(fs, sweep.cur)
          THEN /\ fs' = unlink(fs, sweep.cur)
               /\ sweep' = NextFile([sweep EXCEPT !.removed = @ \cup {sweep.cur}],
                                    sweep.cur)
          ELSE /\ fs' = fs
               /\ sweep' = NextDir([sweep EXCEPT !.errs = @ \cup {sweep.cur}])
    /\ UNCHANGED <<clock, dirs, job, content, result, style, rootTsx, composition>>

\* ------------------------------------------- the extractor on its own

FileBase == <<"m">>

Range(q) == {q[i] : i \in DOMAIN q}

\* Source texts: every bounded literal, and every bounded list of exports.
Contents ==
    {[cfg |-> c, exports |-> <<ConfigItem, DefaultItem>>] : c \in Literals \cup {NoMatch}}
        \cup {[cfg |-> IF ConfigItem \in Range(e) THEN SrcGood.cfg ELSE NoMatch,
               exports |-> e] : e \in BoundedSeq(ExportItems, MaxExports)}

Extract ==
    /\ result = NoConfig
    /\ result' = extractCompositionConfig(content, FileBase)
    /\ UNCHANGED <<clock, fs, dirs, job, sweep, content, style, rootTsx, composition>>

\* api-server.js lines 166-175: the composition handed to renderMedia, as
\* far as the handler overrides what selectComposition returned.
RenderComposition(config) ==
    [t |-> "composition",
     durationInFrames |-> MathRoundProduct(config.durationInSeconds, config.fps),
     fps |-> config.fps,
     width |-> config.width,
     height |-> config.height]

\* createTempProject writes Root.tsx for the extracted config.
Synthesize ==
    /\ result.t = "config"
    /\ rootTsx = NoConfig
    /\ rootTsx' = RootTsx(result, detectExportStyle(content, FileBase))
    /\ UNCHANGED <<clock, fs, dirs, job, sweep, content, result, style, composition>>

\* The handler builds the composition it renders from the extracted config.
Render ==
    /\ result.t = "config"
    /\ composition = NoConfig
    /\ composition' = RenderComposition(result)
    /\ UNCHANGED <<clock, fs, dirs, job, sweep, content, result, style, rootTsx>>

Detect ==
    /\ style = NoConfig
    /\ style' = detectExportStyle(content, FileBase)
    /\ UNCHANGED <<clock, fs, dirs, job, sweep, content, result, rootTsx, composition>>

\* -------------------------------------------------------- specifications

JobStep(j) ==
    \/ Receive(j)
    \/ WriteDone(j)
    \/ EnsureBrowserDone(j)
    \/ BundleDone(j)
    \/ SelectDone(j)
    \/ RenderDone(j)
    \/ UnlinkTsxDone(j)
    \/ ReadDone(j)
    \/ CatchUnlinkTsxDone(j)
    \/ CatchUnlinkOutDone(j)

SweepStep ==
    \/ SweepStart
    \/ SweepReaddirDone
    \/ SweepStatDone
    \/ SweepUnlinkDone

Next ==
    \/ \E j \in Jobs : JobStep(j)
    \/ Tick

\* The requests the server handles, interleaved at their awaits.
Spec == Init /\ [][Next]_vars

\* An awaited call of job j returns or throws.
Returns(j) ==
    \/ WriteDone(j)
    \/ EnsureBrowserDone(j)
    \/ BundleDone(j)
    \/ SelectDone(j)
    \/ RenderDone(j)
    \/ UnlinkTsxDone(j)
    \/ ReadDone(j)
    \/ CatchUnlinkTsxDone(j)
    \/ CatchUnlinkOutDone(j)

\* The same requests when every awaited call eventually returns or throws.
SpecLive == Init /\ [][Next]_vars /\ \A j \in Jobs : WF_vars(Returns(j))

\* One sweep after another over storage areas that nothing else touches,
\* started an hour or an hour and a half after the oldest file was written.
InitSweep ==
    /\ clock \in {ONE_HOUR, ONE_HOUR + Period}
    /\ fs \in {f \in [AllPaths -> {NoFile, 0, Period}] :
                  \A p \in AllPaths : p.kind = "job" => f[p] = NoFile}
    /\ dirs = {}
    /\ job = [j \in Jobs |-> IdleJob]
    /\ sweep = IdleSweep
    /\ content = SrcGood
    /\ result = NoConfig
    /\ style = NoConfig
    /\ rootTsx = NoConfig
    /\ composition = NoConfig

NextSweep == SweepStep

SpecSweep == InitSweep /\ [][NextSweep]_vars

\* One request and the sweeps setInterval starts, on empty storage areas.
InitReaper ==
    /\ clock = 0
    /\ fs = [p \in AllPaths |-> NoFile]
    /\ dirs = {}
    /\ job = [j \in Jobs |-> IdleJob]
    /\ sweep = IdleSweep
    /\ content = SrcGood
    /\ result = NoConfig
    /\ style = NoConfig
    /\ rootTsx = NoConfig
    /\ composition = NoConfig

NextReaper ==
    \/ JobStep(1)
    \/ SweepStep
    \/ Elapse

SpecReaper == InitReaper /\ [][NextReaper]_vars

\* The extractor and the detector applied to one source text.
InitExtract ==
    /\ clock = 0
    /\ fs = [p \in AllPaths |-> NoFile]
    /\ dirs = {}
    /\ job = [j \in Jobs |-> IdleJob]
    /\ sweep = IdleSweep
    /\ content \in Contents
    /\ result = NoConfig
    /\ style = NoConfig
    /\ rootTsx = NoConfig
    /\ composition = NoConfig

NextExtract == Extract \/ Detect

SpecExtract == InitExtract /\ [][NextExtract]_vars

\* The extractor applied to one source text, and what createTempProject and
\* the handler's renderMedia call make of the config it returns.
NextSynth == Extract \/ Synthesize \/ Render

SpecSynth == InitExtract /\ [][NextSynth]_vars

\* ------------------------------------------------------------------ claims

HourMs == 60 * 60 * 1000
MiB == 1024 * 1024

\* The handler of job j ends in this step.
Ends(j) == job[j].pc # "done" /\ job'[j].pc = "done"

LaterStages ==
    {"ensureBrowser", "createTempProject", "bundle", "selectComposition", "renderMedia"}

\* C1: once the /render handler has finished, on whatever exit path, the
\* temp project directory that was made for the job no longer exists.
C1_TempProjectDirGone ==
    [][\A j \in Jobs :
          Ends(j) /\ job'[j].made # NoDir => job'[j].made \notin dirs']_vars

\* C2: a job that fails at any stage after its source text was persisted,
\* with every deletion it attempted succeeding, ends with neither its temp
\* source file nor its output file on disk.
C2_FailedJobLeavesNoFiles ==
    [][\A j \in Jobs :
          (/\ Ends(j)
           /\ job'[j].resp.kind = "error"
           /\ job'[j].stage \notin {"validate", "writeFile"}
           /\ ~job'[j].delFailed)
          => /\ ~existsSync(fs', tsxFilePath(j))
             /\ ~existsSync(fs', outputPath(j, job'[j].filename))]_vars

\* The source text is missing, not a string, or longer than 1 MiB.
Rejectable(tsx) == tsx.typ = "undefined" \/ tsx.typ # "string" \/ tsx.len > MiB

\* C3: a request whose source text is missing, not a string or longer than
\* 1 MiB is answered 400 in the step that receives it, with no job id
\* allocated, no file or directory touched and no stage called, and the
\* handler does nothing afterwards.
C3_RejectedBeforeAnyWrite ==
    [][\A j \in Jobs :
          /\ (job[j].pc = "idle" /\ job'[j].pc # "idle" /\ Rejectable(job'[j].tsx))
             => /\ job'[j].pc = "done"
                /\ job'[j].resp = [code |-> 400, kind |-> "error", jobId |-> 0]
                /\ job'[j].jobId = 0
                /\ job'[j].calls = {}
                /\ fs' = fs
                /\ dirs' = dirs
          /\ (job[j].pc = "done" => job'[j] = job[j])]_vars

C3_Witness ==
    \E j \in Jobs :
        /\ job[j].pc = "done"
        /\ job[j].tsx.typ = "string"
        /\ job[j].tsx.len > MiB
        /\ job[j].resp.code = 400

\* Stale when the sweep started: older than one hour then.
StaleAtStart(p) ==
    sweep.start[p] # NoFile /\ sweep.now - sweep.start[p] > HourMs

\* C4: a sweep deletes only files that were older than 1 hour when it
\* started, leaves every other file as it was, and, when no stat, unlink or
\* readdir failed, has deleted every file of both areas that was older.
C4_SweepDeletesExactlyStale ==
    /\ \A p \in sweep.removed : StaleAtStart(p)
    /\ sweep.pc # "idle" => \A p \in AllPaths : ~StaleAtStart(p) => fs[p] = sweep.start[p]
    /\ (sweep.pc = "done" /\ sweep.errs = {} /\ sweep.dirErrs = {})
       => \A p \in AllPaths : StaleAtStart(p) => fs[p] = NoFile

C4_Witness ==
    /\ sweep.pc = "done"
    /\ sweep.errs = {}
    /\ sweep.dirErrs = {}
    /\ \E p, q \in sweep.removed : p.area = "temp" /\ q.area = "outputs"
    /\ \E p \in AllPaths :
          /\ sweep.start[p] # NoFile
          /\ sweep.now - sweep.start[p] = HourMs
          /\ fs[p] # NoFile

\* C5: when the stat or unlink of one file fails, every other stale file of
\* the same area and of the other area is still deleted by that sweep.
C5_FailureDoesNotAbortSweep ==
    (sweep.pc = "done" /\ sweep.dirErrs = {})
    => \A p \in AllPaths : StaleAtStart(p) /\ p \notin sweep.errs => fs[p] = NoFile

\* C6: a finished job has sent exactly one response: a video when no stage
\* failed, 400 when validation or config extraction failed, 500 with the
\* job id when any other stage failed; an unfinished job has sent none; and
\* after a config extraction failure no later stage was called.
C6_ResponseByFailedStage ==
    \A j \in Jobs :
        /\ job[j].pc # "done" => job[j].sent = 0 /\ job[j].resp.kind = "none"
        /\ job[j].pc = "done" =>
              /\ job[j].sent = 1
              /\ job[j].resp.kind \in {"video", "error"}
              /\ job[j].resp.kind = "video" <=> job[j].stage = "none"
              /\ job[j].resp.kind = "error" => job[j].resp.code \in {400, 500}
              /\ job[j].stage \in {"validate", "extractCompositionConfig"}
                    => job[j].resp.code = 400
              /\ job[j].stage \notin {"none", "validate", "extractCompositionConfig"}
                    => job[j].resp = [code |-> 500, kind |-> "error", jobId |-> j]
              /\ job[j].stage = "extractCompositionConfig"
                    => job[j].calls \cap LaterStages = {}

C6_Witness ==
    \E j \in Jobs :
        /\ job[j].pc = "done"
        /\ job[j].stage = "extractCompositionConfig"
        /\ job[j].resp.code = 400
        /\ \E k \in Jobs :
              /\ job[k].pc = "done"
              /\ job[k].stage = "readFile"
              /\ job[k].resp.code = 500

\* C7: when a job sends the video, its temp source file is already deleted
\* and its output file is on disk, and the handler does nothing afterwards.
C7_SuccessTail ==
    [][\A j \in Jobs :
          /\ (Ends(j) /\ job'[j].resp.kind = "video")
             => /\ ~existsSync(fs, tsxFilePath(j))
                /\ ~existsSync(fs', tsxFilePath(j))
                /\ existsSync(fs', outputPath(j, job'[j].filename))
          /\ (job[j].pc = "done" => job'[j] = job[j])]_vars

C7_Witness ==
    \E j \in Jobs :
        /\ job[j].pc = "done"
        /\ job[j].resp.kind = "video"
        /\ existsSync(fs, outputPath(j, job[j].filename))

\* The value the literal gives a key: that of its last entry outside comments.
LitValue(key) == EvalConfig(content.cfg)[key]

TruthyValue(v) ==
    /\ v.t \notin {"undefined", "null", "NaN"}
    /\ v # JNum(0)
    /\ v # JStr(<<>>)

DocDefault(key) ==
    CASE key = "id" -> JStr(FileBase)
      [] key = "durationInSeconds" -> Whole(5)
      [] key = "fps" -> Whole(30)
      [] key = "width" -> Whole(1080)
      [] key = "height" -> Whole(1920)
      [] key = "defaultProps" -> JObj("empty")

NumericKeys == {"durationInSeconds", "fps", "width", "height"}

\* C8: when the pattern is found and evaluation succeeds, each field of the
\* returned config is the literal's value if present and truthy and its
\* documented default otherwise, and no numeric field is null or undefined.
C8_StructuralBackfill ==
    (result # NoConfig /\ content.cfg.found /\ ~content.cfg.bad)
    => /\ result.t = "config"
       /\ \A key \in Keys :
             result[key] = IF TruthyValue(LitValue(key)) THEN LitValue(key)
                           ELSE DocDefault(key)
       /\ \A key \in NumericKeys : result[key].t \notin {"undefined", "null"}

\* An explicit fps: 0 and an omitted width, both read as their defaults.
C8_Witness ==
    /\ result # NoConfig
    /\ content.cfg.found
    /\ ~content.cfg.bad
    /\ LitValue("fps") = JNum(0)
    /\ LitValue("width") = JUndefined
    /\ result.fps = Whole(30)
    /\ result.width = Whole(1080)

\* C9: extraction throws exactly when the export pattern is not found, and
\* the error names the file; when the pattern is found and evaluation
\* throws, it returns the regex result: a matched field parsed from the
\* matched text, an unmatched field at its default, defaultProps empty.
C9_OnlyHardFailure ==
    result # NoConfig
    => /\ result.t = "error" <=> ~content.cfg.found
       /\ result.t = "error" => result.file = FileBase
       /\ (content.cfg.found /\ content.cfg.bad)
          => /\ result.t = "config"
             /\ result.defaultProps = JObj("empty")
             /\ \A key \in Keys \ {"defaultProps"} :
                   /\ extractValue(content.cfg, key) = JNull
                         => result[key] = DocDefault(key)
                   /\ extractValue(content.cfg, key) = JStr(<<"2", "4">>)
                         => result[key] = IF key = "id" THEN JStr(<<"2", "4">>)
                                          ELSE Whole(24)

C9_Witness ==
    /\ result # NoConfig
    /\ content.cfg.found
    /\ content.cfg.bad
    /\ result.t = "config"
    /\ result.fps = Whole(24)
    /\ result.width = Whole(1080)
    /\ result.id = JStr(FileBase)

\* A const or function export of a capitalized identifier other than the
\* configuration export name.
ComponentExport(x) ==
    /\ x.kw \in {"const", "function"}
    /\ x.name # <<>>
    /\ Head(x.name) \in Upper
    /\ x.name # ConfigName

\* C10: detectExportStyle returns the default style if a default export
\* occurs anywhere; otherwise the name of the first capitalized const or
\* function export that is not the configuration export; otherwise the file
\* base name.
C10_ExportPriority ==
    style # NoConfig
    => LET xs == content.exports
           comps == {i \in DOMAIN xs : ComponentExport(xs[i])}
           first == CHOOSE i \in comps : \A k \in comps : i <= k
       IN  IF \E i \in DOMAIN xs : xs[i].kw = "default"
           THEN style.type = "default"
           ELSE IF comps # {}
           THEN style = [type |-> "named", name |-> xs[first].name]
           ELSE style = [type |-> "named", name |-> FileBase]

\* The value the attribute text {text} of Root.tsx evaluates to: a number
\* literal, NaN, or an expression that is no value at all.
Declared(text) ==
    IF IsNumberText(text) THEN ParseFloatText(text)
    ELSE IF text = NaNText THEN JNaN
    ELSE [t |-> "invalid"]

FrameRange == (0 - 200)..1500

\* The whole number nearest to h hundredths, the upper one of two.
Nearest(h) ==
    CHOOSE r \in FrameRange : 100 * r - 50 <= h /\ h < 100 * r + 50

CompositionParameters == {"durationInFrames", "fps", "width", "height"}

\* C11: the durationInFrames Root.tsx declares is round(durationInSeconds *
\* fps) of the config, and durationInFrames, fps, width and height of the
\* composition handed to the renderer are the values Root.tsx declares.
C11_SameCompositionParameters ==
    (rootTsx.t = "root" /\ composition.t = "composition")
    => /\ (result.durationInSeconds.t = "number" /\ result.fps.t = "number")
          => Declared(rootTsx.durationInFrames)
                = Whole(Nearest(result.durationInSeconds.n * result.fps.n))
       /\ \A k \in CompositionParameters : composition[k] = Declared(rootTsx[k])

\* C11 for the configs whose four numeric fields are numbers.
C11_NumericConfigsAgree ==
    (/\ rootTsx.t = "root" /\ composition.t = "composition"
     /\ \A k \in {"durationInSeconds", "fps", "width", "height"} : result[k].t = "number")
    => /\ Declared(rootTsx.durationInFrames)
             = Whole(Nearest(result.durationInSeconds.n * result.fps.n))
       /\ \A k \in CompositionParameters : composition[k] = Declared(rootTsx[k])

\* The handler of job k is between its admission and its end.
InFlight(k) == job[k].pc \notin {"idle", "done"}

\* C12: two jobs in flight have different temp source paths and different
\* output paths, and no step of one job changes (overwrites or deletes) the
\* temp source file or the output file of another job in flight.
C12_JobFilesIsolated ==
    [][\A j \in Jobs : \A k \in Jobs \ {j} :
          (InFlight(k) /\ job'[j] # job[j] /\ job'[j].pc # "idle" /\ job'[j].jobId # 0)
          => /\ tsxFilePath(j) # tsxFilePath(k)
             /\ outputPath(j, job'[j].filename) # outputPath(k, job[k].filename)
             /\ fs'[tsxFilePath(k)] = fs[tsxFilePath(k)]
             /\ fs'[outputPath(k, job[k].filename)]
                   = fs[outputPath(k, job[k].filename)]]_vars

\* C13: two jobs that both hold a temp project directory and have not ended
\* hold different directories.
C13_OwnProjectDir ==
    \A j \in Jobs : \A k \in Jobs \ {j} :
        (/\ InFlight(j) /\ InFlight(k)
         /\ job[j].tempProjectDir # NoDir /\ job[k].tempProjectDir # NoDir)
        => job[j].tempProjectDir # job[k].tempProjectDir

\* C14: a sweep never deletes a file written by a job that has not ended.
C14_SweepSparesJobsInFlight ==
    [][\A j \in Jobs : \A p \in job[j].written :
          (InFlight(j) /\ sweep' # sweep) => (existsSync(fs, p) => existsSync(fs', p))]_vars

\* The stages of a job in the order the spec gives them; deliver is the
\* unlink of the source, the read-back and the send.
StageOrder ==
    <<"validate", "writeFile", "extractCompositionConfig", "ensureBrowser",
      "createTempProject", "bundle", "selectComposition", "renderMedia", "deliver">>

IsPrefix(t, q) == Len(t) <= Len(q) /\ \A i \in 1..Len(t) : t[i] = q[i]

\* C15: the stages a job has invoked so far are an initial part of the fixed
\* order, each once, and each but the first was invoked after the one before
\* it succeeded; a video is sent only by a job all of whose stages, the
\* render among them, succeeded; a job of which a stage failed ends with an
\* error; and a job that has ended does nothing more.
C15_LinearPipeline ==
    /\ [](\A j \in Jobs :
            /\ IsPrefix(job[j].trace, StageOrder)
            /\ \A i \in 2..Len(job[j].trace) : job[j].trace[i - 1] \in job[j].succeeded
            /\ job[j].resp.kind = "video"
                  => /\ "renderMedia" \in job[j].succeeded
                     /\ job[j].succeeded = Range(StageOrder)
            /\ (job[j].pc = "done" /\ job[j].stage # "none")
                  => job[j].resp.kind = "error")
    /\ [][\A j \in Jobs : job[j].pc = "done" => job'[j] = job[j]]_vars

C15_Witness ==
    \E j \in Jobs : \E k \in Jobs :
        /\ job[j].pc = "done" /\ job[j].resp.kind = "video"
        /\ job[j].trace = StageOrder
        /\ job[k].pc = "done" /\ job[k].stage = "bundle"
        /\ Len(job[k].trace) = 6

\* C16: a job whose render succeeded and whose read-back did not fail is
\* delivered as a video, whatever its deletions did; a failure to delete is
\* never the failure the caller is told of.
C16_DeletionFailureNotSurfaced ==
    \A j \in Jobs :
        job[j].pc = "done"
        => /\ ("renderMedia" \in job[j].succeeded /\ job[j].stage # "readFile")
                 => job[j].resp.kind = "video"
           /\ job[j].stage # "unlinkTsx"

\* C17: when a job that was admitted ends with an error response, the
\* directory made for it was gone when the response was sent, and so were
\* its temp source file and its output file unless a deletion failed.
C17_CleanupBeforeErrorResponse ==
    [][\A j \in Jobs :
          (Ends(j) /\ job'[j].resp.kind = "error" /\ job'[j].stage # "validate")
          => /\ ~job'[j].dirAtSend
             /\ ~job'[j].delFailed
                   => /\ ~existsSync(fs', tsxFilePath(j))
                      /\ ~existsSync(fs', outputPath(j, job'[j].filename))]_vars

\* C17 for the directory alone, of the jobs whose createTempProject returned.
C17_DirGoneBeforeErrorResponse ==
    \A j \in Jobs :
        (job[j].resp.kind = "error" /\ job[j].tempProjectDir # NoDir)
        => ~job[j].dirAtSend

\* Job j was admitted: it passed validation and was given a job id.
Admitted(j) == job[j].jobId # 0

IsPositiveInteger(v) == v.t = "number" /\ v.n > 0 /\ v.n % Scale = 0

\* C19: every config the extractor returns has a non-empty string id, a
\* positive number durationInSeconds, positive integers fps, width and
\* height, and an object defaultProps.
C19_ConfigInvariant ==
    result.t = "config"
    => /\ result.id.t = "string" /\ Len(result.id.s) > 0
       /\ result.durationInSeconds.t = "number" /\ result.durationInSeconds.n > 0
       /\ IsPositiveInteger(result.fps)
       /\ IsPositiveInteger(result.width)
       /\ IsPositiveInteger(result.height)
       /\ result.defaultProps.t = "object"

\* C19 for the configs the regex fallback returns.
C19_FallbackInvariant ==
    (result.t = "config" /\ EvalConfig(configMatch(content)) = Throws)
    => C19_ConfigInvariant

\* C20: a step of a failed job's cleanup deletes a file only if this job
\* wrote it; an output file that was there before, left by an earlier job,
\* stays.
C20_CleanupDeletesOwnFilesOnly ==
    [][\A j \in Jobs : \A p \in AllPaths :
          (/\ job[j].pc \in {"catchUnlinkTsx", "catchUnlinkOut"}
           /\ job'[j] # job[j]
           /\ existsSync(fs, p) /\ ~existsSync(fs', p))
          => p \in job[j].written]_vars

====
